---- MODULE Spec2Model ----
(* A model of assets/unit_animation.py: a script that loads data/Units.json  *)
(* and prints either Rust source (--rust) or one texture path per line.      *)
(*                                                                           *)
(* Strings that the script takes apart or orders (texture names, directory   *)
(* names) are sequences of code points; the parsed document units_data is a  *)
(* sequence of unit_data values in document order (the dict keeps insertion  *)
(* order and unit_name is never used by the script), each a function from    *)
(* the animation keys it has to [Texture, Frames].                           *)
EXTENDS Integers, Sequences, FiniteSets, TLC

\* ---------------------------------------------------------------- bounds
\* Most units in a document.
MaxUnits == 2
\* Most frames in a document, summed over all its frame sequences.
MaxFrames == 2

\* ------------------------------------------------------- program constants
\* ord('-'), the character unit_animation.py:28 removes.
Dash == 45

\* unit_animation.py:66, in the order of the list.
animations == <<"IdleAnimation", "MoveUpAnimation", "MoveDownAnimation", "MoveSideAnimation">>

\* unit_animation.py:58, the default of os.environ.get.
DefaultTexturesDir == "../AWBW-Replay-Player/AWBWApp.Resources/Textures"

\* ------------------------------------------------------------------ inputs
\* Directory names under the texture root: "AZ" and "B" (the shorter name
\* sorts last), and a name that may be a plain file, "A".
NameAZ == <<65, 90>>
NameB == <<66>>
NameA == <<65>>
EntryNames == {NameAZ, NameB, NameA}

\* The states of <root>/Units: not listable, or a listing name -> is a directory.
Listings ==
  { [n \in S |-> n # NameA] : S \in SUBSET EntryNames }

FileSystems ==
  { [listable |-> FALSE, isdir |-> << >>] }
    \cup { [listable |-> TRUE, isdir |-> l] : l \in Listings }

\* TEXTURES_DIR: unset, or set to a directory.
Environments == { "unset", "/tex" }

\* The texture name of the unit at position v: "t-a" (with the separator) or
\* "inf", so that units two apart share a name.
TextureOf(v) == IF v % 2 = 1 THEN <<116, Dash, 97>> ELSE <<105, 110, 102>>

\* The two ways a document writes n frames: 0, 1, .., n-1, or n times 3.
FrameStyles == { "ascending", "constant" }
FramesOf(style, n) == [ i \in 1..n |-> IF style = "ascending" THEN i - 1 ELSE 3 ]

\* The sequences of m lengths that sum to b at most.
RECURSIVE Lengths(_, _)
Lengths(m, b) ==
  IF m = 0 THEN { << >> }
  ELSE UNION { { <<l>> \o r : r \in Lengths(m - 1, b - l) } : l \in 0..b }

\* The keys a document of n units may lack, as slots (slot 4(u-1)+k is key k
\* of unit u): none, one key of one unit, or the same key in every unit.
MissingSlots(n) ==
  { {} } \cup { {s} : s \in 1..(4 * n) }
         \cup { { 4 * (v - 1) + k : v \in 1..n } : k \in 1..4 }

\* The document of n units that has every key but those at the slots of
\* `missing`, the frame sequence at slot s being of length lens[s].
Document(n, style, lens, missing) ==
  [ v \in 1..n |->
      [ a \in { animations[k] : k \in { k \in 1..4 : 4 * (v - 1) + k \notin missing } } |->
          LET k == CHOOSE k \in 1..4 : animations[k] = a
          IN  [ Texture |-> TextureOf(v),
                Frames  |-> FramesOf(style, lens[4 * (v - 1) + k]) ] ] ]

Documents ==
  UNION { { Document(n, style, lens, missing) :
              style \in FrameStyles,
              lens \in Lengths(4 * n, MaxFrames),
              missing \in MissingSlots(n) } : n \in 0..MaxUnits }

\* What data/Units.json holds: text that does not parse, or a document.
Contents ==
  { [parses |-> FALSE, doc |-> << >>] } \cup { [parses |-> TRUE, doc |-> d] : d \in Documents }

\* ------------------------------------------------------------------- state
VARIABLES
  rust,        \* args.rust
  content,     \* the text of data/Units.json
  env,         \* TEXTURES_DIR
  fs,          \* the directory <TEXTURES_DIR>/Units
  pc,          \* where the script is, or how it ended
  units_data,  \* the parsed document
  frames,      \* the running frame count of the --rust branch
  u,           \* the next unit of the --rust loop
  base_path,   \* the texture root
  factions,    \* the sorted faction directories
  f,           \* the next faction of the outer loop
  listed,      \* os.listdir has been called
  out,         \* the lines printed so far
  prev,        \* the lines the previous run printed
  rerun        \* this is the second run

vars == << rust, content, env, fs, pc, units_data, frames, u, base_path,
           factions, f, listed, out, prev, rerun >>

inputs == << rust, content, env, fs >>

Ended == pc \in { "done", "ParseError", "KeyError", "FileSystemError" }

\* --------------------------------------------------------------- functions
\* str.replace('-', '')
RECURSIVE RemoveDashes(_)
RemoveDashes(s) ==
  IF s = << >> THEN << >>
  ELSE IF Head(s) = Dash THEN RemoveDashes(Tail(s))
  ELSE <<Head(s)>> \o RemoveDashes(Tail(s))

\* The shorter string first, code points breaking ties of length.
RECURSIVE StrLess_ShortLex(_, _)
StrLess_ShortLex(a, b) ==
  IF Len(a) # Len(b) THEN Len(a) < Len(b)
  ELSE IF a = << >> THEN FALSE
  ELSE IF Head(a) # Head(b) THEN Head(a) < Head(b)
  ELSE StrLess_ShortLex(Tail(a), Tail(b))

\* Python's order of str: by code point, a proper prefix first.
RECURSIVE StrLess(_, _)
StrLess(a, b) ==
  IF b = << >> THEN FALSE
  ELSE IF a = << >> THEN TRUE
  ELSE IF Head(a) # Head(b) THEN Head(a) < Head(b)
  ELSE StrLess(Tail(a), Tail(b))

\* sorted(): insertion of each element into the sorted prefix.
RECURSIVE Insert(_, _)
Insert(x, s) ==
  IF s = << >> THEN <<x>>
  ELSE IF StrLess(x, Head(s)) THEN <<x>> \o s
  ELSE <<Head(s)>> \o Insert(x, Tail(s))

\* The listing as os.listdir returned it.
sorted_Unsorted(s) == s

RECURSIVE sorted(_)
sorted(s) == IF s = << >> THEN << >> ELSE Insert(Head(s), sorted(Tail(s)))

\* range(1, n + 1)
range_FromOne(n) == [ i \in 1..n |-> i ]

\* range(n)
range(n) == [ i \in 1..n |-> i - 1 ]

\* The orders in which os.listdir may return the names of a listing.
ListingOrders(names) ==
  { s \in [1..Cardinality(names) -> names] : \A i, j \in DOMAIN s : i # j => s[i] # s[j] }

\* os.listdir(base_path) without the filter.
IsDirFilter_All(listing) == listing

\* [d for d in os.listdir(base_path) if os.path.isdir(...)]
IsDirFilter(listing) == SelectSeq(listing, LAMBDA d : fs.isdir[d])

\* os.path.join(base_path, 'Units')
PathJoin(dir) == <<dir, "Units">>

\* Lines 20-22.
HeaderLines ==
  << [k |-> "text", s |-> "// This file is generated by unit_animation.py --rust"],
     [k |-> "text", s |-> "fn get_animation_data(unit: Unit) -> (u16, UnitAnimationData) {"],
     [k |-> "text", s |-> "match unit {"] >>

\* Lines 42-47 printed after line 48: the offset counts the unit's own frames.
EntryLines_AfterCount(n, unit_data, offset) ==
  << [k |-> "entry", unit |-> n,
      id |-> RemoveDashes(unit_data["IdleAnimation"].Texture),
      offset |-> offset + Len(unit_data["IdleAnimation"].Frames)
                   + Len(unit_data["MoveUpAnimation"].Frames)
                   + Len(unit_data["MoveDownAnimation"].Frames)
                   + Len(unit_data["MoveSideAnimation"].Frames)],
     [k |-> "array", unit |-> n, a |-> unit_data["IdleAnimation"].Frames],
     [k |-> "array", unit |-> n, a |-> unit_data["MoveUpAnimation"].Frames],
     [k |-> "array", unit |-> n, a |-> unit_data["MoveDownAnimation"].Frames],
     [k |-> "array", unit |-> n, a |-> unit_data["MoveSideAnimation"].Frames],
     [k |-> "text", s |-> "    ))," ] >>

\* Lines 42-47 for the unit at position n: its entry, printed with the
\* running count `offset`.
EntryLines(n, unit_data, offset) ==
  << [k |-> "entry", unit |-> n,
      id |-> RemoveDashes(unit_data["IdleAnimation"].Texture), offset |-> offset],
     [k |-> "array", unit |-> n, a |-> unit_data["IdleAnimation"].Frames],
     [k |-> "array", unit |-> n, a |-> unit_data["MoveUpAnimation"].Frames],
     [k |-> "array", unit |-> n, a |-> unit_data["MoveDownAnimation"].Frames],
     [k |-> "array", unit |-> n, a |-> unit_data["MoveSideAnimation"].Frames],
     [k |-> "text", s |-> "    ))," ] >>

\* Line 48 without its last term.
UnitFrameCount_NoMoveSide(unit_data) ==
  Len(unit_data["IdleAnimation"].Frames) + Len(unit_data["MoveUpAnimation"].Frames)
    + Len(unit_data["MoveDownAnimation"].Frames)

\* Line 48.
UnitFrameCount(unit_data) ==
  Len(unit_data["IdleAnimation"].Frames) + Len(unit_data["MoveUpAnimation"].Frames)
    + Len(unit_data["MoveDownAnimation"].Frames) + Len(unit_data["MoveSideAnimation"].Frames)

\* Lines 50-55.
FooterLines(total) ==
  << [k |-> "text", s |-> "}"],
     [k |-> "text", s |-> "}"],
     [k |-> "text", s |-> "impl UnitAnimationData {"],
     [k |-> "total", frames |-> total],
     [k |-> "text", s |-> "}"] >>

\* Lines 70-77: the lines of one animation of the unit at position n. A line
\* is root/faction/texture-index.png; unit and anim say which iteration
\* printed it.
AnimLines(root, faction, n, anim_type, anim_data) ==
  LET frame_count == Len(anim_data.Frames)
      idx == range(frame_count)
  IN  [ i \in 1..frame_count |->
          [ k |-> "path", root |-> root, faction |-> faction,
            texture |-> anim_data.Texture, index |-> idx[i],
            unit |-> n, anim |-> anim_type ] ]

\* Lines 68-77 with a break at the first key the unit does not have.
RECURSIVE UnitLines_Break(_, _, _, _, _)
UnitLines_Break(root, faction, n, unit_data, a) ==
  IF a > Len(animations) THEN << >>
  ELSE IF animations[a] \in DOMAIN unit_data
       THEN AnimLines(root, faction, n, animations[a], unit_data[animations[a]])
              \o UnitLines_Break(root, faction, n, unit_data, a + 1)
       ELSE << >>

\* Lines 68-77: the animations from position a on, those the unit has.
RECURSIVE UnitLines(_, _, _, _, _)
UnitLines(root, faction, n, unit_data, a) ==
  IF a > Len(animations) THEN << >>
  ELSE IF animations[a] \in DOMAIN unit_data
       THEN AnimLines(root, faction, n, animations[a], unit_data[animations[a]])
              \o UnitLines(root, faction, n, unit_data, a + 1)
       ELSE UnitLines(root, faction, n, unit_data, a + 1)

\* Lines 65-77: the units from position n on.
RECURSIVE FactionLines(_, _, _, _)
FactionLines(root, faction, units, n) ==
  IF n > Len(units) THEN << >>
  ELSE UnitLines(root, faction, n, units[n], 1) \o FactionLines(root, faction, units, n + 1)

\* ------------------------------------------------------------------ actions
Init ==
  /\ rust \in BOOLEAN
  /\ content \in Contents
  /\ env \in Environments
  /\ fs \in FileSystems
  /\ pc = "start"
  /\ units_data = << >>
  /\ frames = 0
  /\ u = 1
  /\ base_path = << >>
  /\ factions = << >>
  /\ f = 1
  /\ listed = FALSE
  /\ out = << >>
  /\ prev = << >>
  /\ rerun = FALSE

\* Lines 13-17, the document parses.
Load ==
  /\ pc = "start"
  /\ content.parses
  /\ units_data' = content.doc
  /\ pc' = "loaded"
  /\ UNCHANGED << inputs, frames, u, base_path, factions, f, listed, out, prev, rerun >>

\* Lines 13-17, json.loads raises.
LoadParseError ==
  /\ pc = "start"
  /\ ~content.parses
  /\ pc' = "ParseError"
  /\ UNCHANGED << inputs, units_data, frames, u, base_path, factions, f, listed, out,
                  prev, rerun >>

\* Lines 19-23 with lines 58-62 moved above the branch.
CodeHeader_ListsRoot ==
  /\ pc = "loaded"
  /\ rust
  /\ listed' = TRUE
  /\ IF fs.listable
     THEN /\ out' = out \o HeaderLines
          /\ pc' = "units"
     ELSE /\ out' = out
          /\ pc' = "FileSystemError"
  /\ frames' = 0
  /\ u' = 1
  /\ UNCHANGED << inputs, units_data, base_path, factions, f, prev, rerun >>

\* Lines 19-23.
CodeHeader ==
  /\ pc = "loaded"
  /\ rust
  /\ out' = out \o HeaderLines
  /\ frames' = 0
  /\ u' = 1
  /\ pc' = "units"
  /\ UNCHANGED << inputs, units_data, base_path, factions, f, listed, prev, rerun >>

\* Lines 26-48 with a unit of no frames passed over.
CodeUnit_SkipEmpty ==
  /\ pc = "units"
  /\ u <= Len(units_data)
  /\ \A a \in 1..Len(animations) : animations[a] \in DOMAIN units_data[u]
  /\ out' = IF UnitFrameCount(units_data[u]) = 0 THEN out
            ELSE out \o EntryLines(u, units_data[u], frames)
  /\ frames' = frames + UnitFrameCount(units_data[u])
  /\ u' = u + 1
  /\ UNCHANGED << inputs, pc, units_data, base_path, factions, f, listed, prev, rerun >>

\* Lines 26-48, one iteration for a unit that has the four keys.
CodeUnit ==
  /\ pc = "units"
  /\ u <= Len(units_data)
  /\ \A a \in 1..Len(animations) : animations[a] \in DOMAIN units_data[u]
  /\ out' = out \o EntryLines(u, units_data[u], frames)
  /\ frames' = frames + UnitFrameCount(units_data[u])
  /\ u' = u + 1
  /\ UNCHANGED << inputs, pc, units_data, base_path, factions, f, listed, prev, rerun >>

\* Lines 28-34 with the unit passed over instead, as line 69 does.
CodeUnitKeyError_Skip ==
  /\ pc = "units"
  /\ u <= Len(units_data)
  /\ \E a \in 1..Len(animations) : animations[a] \notin DOMAIN units_data[u]
  /\ u' = u + 1
  /\ UNCHANGED << inputs, pc, units_data, frames, base_path, factions, f, listed, out,
                  prev, rerun >>

\* Lines 28-34, a lookup of a key the unit does not have raises.
CodeUnitKeyError ==
  /\ pc = "units"
  /\ u <= Len(units_data)
  /\ \E a \in 1..Len(animations) : animations[a] \notin DOMAIN units_data[u]
  /\ pc' = "KeyError"
  /\ UNCHANGED << inputs, units_data, frames, u, base_path, factions, f, listed, out,
                  prev, rerun >>

\* Lines 50-55, after the last unit.
CodeFooter ==
  /\ pc = "units"
  /\ u > Len(units_data)
  /\ out' = out \o FooterLines(frames)
  /\ pc' = "done"
  /\ UNCHANGED << inputs, units_data, frames, u, base_path, factions, f, listed, prev, rerun >>

\* Lines 58-62: os.listdir returns the names in some order.
ListDir ==
  /\ pc = "loaded"
  /\ ~rust
  /\ fs.listable
  /\ base_path' = PathJoin(IF env = "unset" THEN DefaultTexturesDir ELSE env)
  /\ listed' = TRUE
  /\ \E listing \in ListingOrders(DOMAIN fs.isdir) :
       factions' = sorted(IsDirFilter(listing))
  /\ f' = 1
  /\ pc' = "factions"
  /\ UNCHANGED << inputs, units_data, frames, u, out, prev, rerun >>

\* Line 62, os.listdir raises: the directory is absent or cannot be listed.
ListDirError ==
  /\ pc = "loaded"
  /\ ~rust
  /\ ~fs.listable
  /\ base_path' = PathJoin(IF env = "unset" THEN DefaultTexturesDir ELSE env)
  /\ listed' = TRUE
  /\ pc' = "FileSystemError"
  /\ UNCHANGED << inputs, units_data, frames, u, factions, f, out, prev, rerun >>

\* Lines 64-77, one iteration of the outer loop.
PathsFaction ==
  /\ pc = "factions"
  /\ f <= Len(factions)
  /\ out' = out \o FactionLines(base_path, factions[f], units_data, 1)
  /\ f' = f + 1
  /\ UNCHANGED << inputs, pc, units_data, frames, u, base_path, factions, listed, prev, rerun >>

\* Line 64, the outer loop is exhausted and the script ends.
PathsEnd ==
  /\ pc = "factions"
  /\ f > Len(factions)
  /\ pc' = "done"
  /\ UNCHANGED << inputs, units_data, frames, u, base_path, factions, f, listed, out,
                  prev, rerun >>

\* The script is run again, with the same arguments, file and directory.
Rerun ==
  /\ Ended
  /\ ~rerun
  /\ rerun' = TRUE
  /\ prev' = out
  /\ pc' = "start"
  /\ units_data' = << >>
  /\ frames' = 0
  /\ u' = 1
  /\ base_path' = << >>
  /\ factions' = << >>
  /\ f' = 1
  /\ listed' = FALSE
  /\ out' = << >>
  /\ UNCHANGED inputs

Next ==
  \/ Load
  \/ LoadParseError
  \/ CodeHeader
  \/ CodeUnit
  \/ CodeUnitKeyError
  \/ CodeFooter
  \/ ListDir
  \/ ListDirError
  \/ PathsFaction
  \/ PathsEnd

Spec == Init /\ [][Next]_vars

NextRerun == Next \/ Rerun

SpecRerun == Init /\ [][NextRerun]_vars

\* ------------------------------------------------- what the claims speak of
\* The document the run was given.
Config == content.doc

HasAllKeys(unit_data) == \A a \in 1..Len(animations) : animations[a] \in DOMAIN unit_data

\* The first unit that lacks a key; Len(Config) + 1 if none does.
FirstIncomplete ==
  IF \A n \in 1..Len(Config) : HasAllKeys(Config[n]) THEN Len(Config) + 1
  ELSE CHOOSE n \in 1..Len(Config) :
         /\ ~HasAllKeys(Config[n])
         /\ \A m \in 1..(n - 1) : HasAllKeys(Config[m])

\* The number of frames of the kinds a unit has.
RECURSIVE KindFrames(_, _)
KindFrames(unit_data, keys) ==
  IF keys = {} THEN 0
  ELSE LET a == CHOOSE a \in keys : TRUE
       IN  Len(unit_data[a].Frames) + KindFrames(unit_data, keys \ {a})

\* The number of frames of the first m units of a document.
RECURSIVE FramesUpTo(_, _)
FramesUpTo(doc, m) ==
  IF m = 0 THEN 0 ELSE FramesUpTo(doc, m - 1) + KindFrames(doc[m], DOMAIN doc[m])

\* The directories under the texture root.
FactionDirs == { d \in DOMAIN fs.isdir : fs.isdir[d] }

\* Lexicographic order: a differs first from b at a position where a ends or is less.
LexLess(a, b) ==
  \E i \in 1..Len(b) :
    /\ \A j \in 1..(i - 1) : j <= Len(a) /\ a[j] = b[j]
    /\ i > Len(a) \/ a[i] < b[i]

KindPosition(a) == CHOOSE k \in 1..Len(animations) : animations[k] = a

Entries == SelectSeq(out, LAMBDA l : l.k = "entry")
Totals == SelectSeq(out, LAMBDA l : l.k = "total")

\* The suffixes printed for faction d, unit n and key a, in the order printed.
Suffixes(d, n, a) ==
  LET ls == SelectSeq(out, LAMBDA l : l.faction = d /\ l.unit = n /\ l.anim = a)
  IN  [ i \in 1..Len(ls) |-> ls[i].index ]

\* Lines 64-77 as a whole: what a run without --rust prints for a document.
RECURSIVE PathsOutput(_, _, _, _)
PathsOutput(root, facs, doc, i) ==
  IF i > Len(facs) THEN << >>
  ELSE FactionLines(root, facs[i], doc, 1) \o PathsOutput(root, facs, doc, i + 1)

\* Lines 20-55 as a whole: what a run with --rust prints for a document whose
\* units have the four keys, the entries of its first m units first.
RECURSIVE CodeEntries(_, _)
CodeEntries(doc, m) ==
  IF m = 0 THEN << >>
  ELSE CodeEntries(doc, m - 1) \o EntryLines(m, doc[m], FramesUpTo(doc, m - 1))

CodeOutput(doc) ==
  HeaderLines \o CodeEntries(doc, Len(doc)) \o FooterLines(FramesUpTo(doc, Len(doc)))

\* The document with key a of unit n removed.
RemoveKey(doc, n, a) ==
  [ doc EXCEPT ![n] = [ b \in (DOMAIN doc[n]) \ {a} |-> doc[n][b] ] ]

\* ------------------------------------------------------------------ claims
\* C1: with --rust and a document whose units all have the four keys, the run
\* ends by printing one TOTAL_FRAMES line, and its value is the sum of the
\* lengths of all frame sequences of the document (0 for no units).
C1_TotalFrames ==
  (rust /\ pc = "done") =>
    /\ Len(Totals) = 1
    /\ Totals[1].frames = FramesUpTo(Config, Len(Config))
    /\ out[Len(out) - 1].k = "total"

C1_Witness ==
  /\ rust /\ pc = "done"
  /\ Len(Config) = 2
  /\ KindFrames(Config[1], DOMAIN Config[1]) > 0
  /\ Len(Config[2]["MoveSideAnimation"].Frames) > 0

\* C2: with --rust, the offset of the k-th entry printed is the number of
\* frames of the k-1 units before it: 0 for the first, never less than the
\* entry before, never counting the unit's own frames.
C2_OffsetIsFramesBefore ==
  rust =>
    /\ \A i \in 1..Len(Entries) : Entries[i].offset = FramesUpTo(Config, i - 1)
    /\ Len(Entries) > 0 => Entries[1].offset = 0
    /\ \A i \in 1..(Len(Entries) - 1) : Entries[i].offset <= Entries[i + 1].offset

C2_Witness ==
  /\ rust
  /\ Len(Entries) = 2
  /\ Entries[2].offset > 0
  /\ KindFrames(Config[2], DOMAIN Config[2]) > 0

\* C3: with --rust and a valid document, the run prints one entry per unit,
\* in the order of the document.
C3_OneEntryPerUnit ==
  (rust /\ pc = "done") =>
    /\ Len(Entries) = Len(Config)
    /\ \A i \in 1..Len(Entries) :
         /\ Entries[i].unit = i
         /\ Entries[i].id = RemoveDashes(Config[i]["IdleAnimation"].Texture)

C3_Witness ==
  /\ rust /\ pc = "done"
  /\ Len(Config) = 2
  /\ Len(Entries) = 2
  /\ KindFrames(Config[1], DOMAIN Config[1]) = 0

\* C4: without --rust, a run that ends has printed |F| times the number of
\* frames of the kinds present in the document, F the directories under the
\* texture root; nothing when there is none.
C4_PathLineCount ==
  (~rust /\ pc = "done") =>
    /\ Len(out) = Cardinality(FactionDirs) * FramesUpTo(Config, Len(Config))
    /\ FactionDirs = {} => out = << >>

C4_Witness ==
  /\ ~rust /\ pc = "done"
  /\ Cardinality(FactionDirs) = 2
  /\ NameA \in DOMAIN fs.isdir
  /\ Len(out) = 4
  /\ \E n \in 1..Len(Config) : ~HasAllKeys(Config[n])

\* C5 as stated: the suffixes printed for an animation are its frame
\* sequence, element for element.
C5_SuffixesAreFrames ==
  (~rust /\ pc = "done") =>
    \A d \in FactionDirs : \A n \in 1..Len(Config) : \A a \in DOMAIN Config[n] :
      Suffixes(d, n, a) = Config[n][a].Frames

\* C5, amended: for each faction, unit and key the unit has, one line is
\* printed per element of the frame sequence, and the suffixes are the
\* positions 0, 1, .., length-1 of the elements, whatever their values.
C5_SuffixesArePositions ==
  (~rust /\ pc = "done") =>
    \A d \in FactionDirs : \A n \in 1..Len(Config) : \A a \in DOMAIN Config[n] :
      /\ Len(Suffixes(d, n, a)) = Len(Config[n][a].Frames)
      /\ \A i \in 1..Len(Config[n][a].Frames) : Suffixes(d, n, a)[i] = i - 1

C5_Witness ==
  /\ ~rust /\ pc = "done"
  /\ \E d \in FactionDirs : \E n \in 1..Len(Config) : \E a \in DOMAIN Config[n] :
       /\ Config[n][a].Frames = <<3, 3>>
       /\ Suffixes(d, n, a) = <<0, 1>>

\* C6: without --rust, the factions are in strictly increasing lexicographic
\* order and are the directories under the root, and of two lines the earlier
\* one is of a lesser faction, or of the same faction and an earlier unit, or
\* of the same unit and a kind not later in Idle, MoveUp, MoveDown, MoveSide.
C6_Nesting ==
  (~rust /\ pc \in {"factions", "done"}) =>
    /\ \A i, j \in 1..Len(factions) : i < j => LexLess(factions[i], factions[j])
    /\ { factions[i] : i \in 1..Len(factions) } = FactionDirs
    /\ \A i, j \in 1..Len(out) : i < j =>
         \/ LexLess(out[i].faction, out[j].faction)
         \/ /\ out[i].faction = out[j].faction
            /\ out[i].unit < out[j].unit
         \/ /\ out[i].faction = out[j].faction
            /\ out[i].unit = out[j].unit
            /\ KindPosition(out[i].anim) <= KindPosition(out[j].anim)

C6_Witness ==
  /\ ~rust /\ pc = "done"
  /\ Len(factions) = 2
  /\ Len(out) = 4
  /\ out[1].unit # out[2].unit
  /\ out[1].faction = out[2].faction

\* C7: without --rust, the run of the document with one key of one unit
\* removed prints what the run of the document printed, less the lines of
\* that unit for that key, the other lines in the same order.
C7_RemoveKey ==
  (~rust /\ pc = "done") =>
    /\ out = PathsOutput(base_path, factions, Config, 1)
    /\ \A n \in 1..Len(Config) : \A a \in DOMAIN Config[n] :
         PathsOutput(base_path, factions, RemoveKey(Config, n, a), 1)
           = SelectSeq(out, LAMBDA l : ~(l.unit = n /\ l.anim = a))

C7_Witness ==
  /\ ~rust /\ pc = "done"
  /\ factions # << >>
  /\ \E n \in 1..Len(Config) :
       /\ "IdleAnimation" \in DOMAIN Config[n]
       /\ "MoveUpAnimation" \in DOMAIN Config[n]
       /\ Config[n]["IdleAnimation"].Frames # << >>
       /\ Config[n]["MoveUpAnimation"].Frames # << >>

\* C8: with --rust and a unit that lacks a key, the run never gets past the
\* first such unit: it prints no entry for it or a later unit, no
\* TOTAL_FRAMES line, does not end in success, and when it has failed with
\* KeyError the entries of the units before it are all printed.
C8_KeyErrorStops ==
  (rust /\ FirstIncomplete <= Len(Config)) =>
    /\ pc # "done"
    /\ Totals = << >>
    /\ u <= FirstIncomplete
    /\ \A i \in 1..Len(Entries) : Entries[i].unit < FirstIncomplete
    /\ pc = "KeyError" =>
         /\ u = FirstIncomplete
         /\ Len(Entries) = FirstIncomplete - 1
         /\ \A i \in 1..Len(Entries) : Entries[i].unit = i

C8_Witness ==
  /\ rust /\ pc = "KeyError"
  /\ FirstIncomplete = 2
  /\ Len(Entries) = 1

\* C8, a later unit: the run has failed at the first of two units that both
\* lack a key, with no entry printed.
C8_WitnessLaterUnit ==
  /\ rust /\ pc = "KeyError"
  /\ FirstIncomplete = 1
  /\ Len(Config) = 2
  /\ ~HasAllKeys(Config[2])
  /\ Entries = << >>

\* C9: a second run with the same flag, document and directory, whatever the
\* order os.listdir returns the names in, prints what the first run printed.
C9_SameOutput ==
  (rerun /\ Ended) => out = prev

C9_Witness ==
  /\ rerun /\ pc = "done" /\ ~rust
  /\ Len(factions) = 2
  /\ out # << >>
  /\ out[1].faction # out[Len(out)].faction

\* C10: a document that does not parse ends the run with nothing printed; a
\* texture root that cannot be listed ends a run without --rust with
\* FileSystemError and nothing printed; a run with --rust never lists the
\* root, and what it prints is decided by the document alone.
C10_InputErrorsFirst ==
  /\ ~content.parses => (out = << >> /\ ~listed /\ pc \in {"start", "ParseError"})
  /\ pc = "ParseError" => ~content.parses
  /\ (~rust /\ ~fs.listable) => (out = << >> /\ pc \in {"start", "loaded", "ParseError", "FileSystemError"})
  /\ pc = "FileSystemError" => (~rust /\ ~fs.listable /\ out = << >>)
  /\ rust => ~listed
  /\ (rust /\ pc = "done") => out = CodeOutput(Config)

C10_Witness ==
  /\ rust /\ pc = "done"
  /\ ~fs.listable
  /\ Len(Entries) = 2

====
